---- MODULE Spec2Model ----
(***************************************************************************)
(* Model of the Tailscale secrets backend (backend/backend.go): the three  *)
(* request handlers UpdateConfiguration, ReadConfiguration and GenerateKey *)
(* over the single storage entry "config" and the upstream key API.        *)
(*                                                                         *)
(* A handler runs in a goroutine of the plugin process.  Its accesses to   *)
(* the storage and to the upstream API are the only steps other handlers   *)
(* can observe, so UpdateConfiguration is split at Storage.Put and         *)
(* GenerateKey at client.CreateKey; ReadConfiguration has a single access. *)
(***************************************************************************)
EXTENDS Integers, Sequences, FiniteSets, TLC

\* ------------------------------------------------------------------ bounds

\* Goroutines that may run handlers at the same time (SpecConc).
NumGoroutines == 2

\* Cap on the number of CreateKey requests sent to the upstream API.
MaxKeys == 2

\* ------------------------------------------------------ program constants

configPath == "config"

DefaultAPIUrl == "https://api.tailscale.com"

\* Go's time.Time{} (year 1, January 1, 00:00:00 UTC), as an instant.
ZeroTime == 0

ErrTailnetEmpty == "provided tailnet cannot be empty"

ErrCredentialEmpty == "one of api_key or oauth_client_id cannot be empty"

ErrAPIUrlEmpty == "provided api_url cannot be empty"

ErrNotConfigured == "configuration has not been set"

\* Errors of the collaborators, surfaced unchanged by the handlers.
ErrStorage == "storage: fault"

ErrParseURL == "parse: missing protocol scheme"

ErrUpstream == "upstream: request failed"

ErrCanceled == "context canceled"

\* A Go nil pointer is the empty sequence, a non-nil pointer to v is <<v>>.
Nil == << >>

Ptr(v) == <<v>>

\* ------------------------------------------------------------------- state

Goroutines == 1..NumGoroutines

VARIABLES
  storage,   \* the mount's durable storage: path -> entry
  upstream,  \* the upstream API: the number of CreateKey requests it was sent
  pc,        \* per goroutine: "idle", "put" (before Storage.Put), "create" (before CreateKey)
  local,     \* per goroutine: the locals of the handler in flight
  result,    \* per goroutine: the last handler's request, outcome and response
  lastWrite  \* the request whose Storage.Put happened last (nil before the first)

vars == <<storage, upstream, pc, local, result, lastWrite>>

\* ------------------------------------------------------- framework.FieldData

ConfigFields == {"tailnet", "api_key", "api_url", "oauth_client_id", "oauth_client_secret", "oauth_scopes"}

KeyFields == {"tags", "preauthorized", "ephemeral"}

\* FieldSchema.DefaultOrZero: the schema's Default, else the zero value of its Type.
DefaultOrZero(k) ==
  CASE k = "api_url" -> DefaultAPIUrl
    [] k \in {"oauth_scopes", "tags"} -> << >>
    [] k \in {"preauthorized", "ephemeral"} -> FALSE
    [] OTHER -> ""

\* FieldData.Get: the raw value when the request carries the field, else the default.
Get(data, k) == IF k \in DOMAIN data THEN data[k] ELSE DefaultOrZero(k)

\* ------------------------------------------------------------------ Config

\* A partial update: a field the request omits keeps the stored record's value.
NewConfigMerged(data) ==
  LET old(k, dflt) == IF "config" \in DOMAIN storage /\ k \notin DOMAIN data
                        THEN storage["config"].Value[k] ELSE dflt
  IN  [ Tailnet           |-> Get(data, "tailnet"),
        APIKey            |-> old("api_key", Get(data, "api_key")),
        APIUrl            |-> old("api_url", Get(data, "api_url")),
        OAuthScopes       |-> old("oauth_scopes", Get(data, "oauth_scopes")),
        OAuthClientSecret |-> old("oauth_client_secret", Get(data, "oauth_client_secret")),
        OAuthClientID     |-> old("oauth_client_id", Get(data, "oauth_client_id")) ]

\* The Config literal UpdateConfiguration builds from the request.
NewConfig(data) ==
  [ Tailnet           |-> Get(data, "tailnet"),
    APIKey            |-> Get(data, "api_key"),
    APIUrl            |-> Get(data, "api_url"),
    OAuthScopes       |-> Get(data, "oauth_scopes"),
    OAuthClientSecret |-> Get(data, "oauth_client_secret"),
    OAuthClientID     |-> Get(data, "oauth_client_id") ]

\* The switch without its tailnet case.
ValidateConfigNoTailnet(config) ==
  CASE config.APIKey = "" /\ config.OAuthClientID = "" -> "one of api_key or oauth_client_id cannot be empty"
    [] config.APIUrl = "" -> "provided api_url cannot be empty"
    [] OTHER -> ""

\* The switch with a credential case that asks for the API key alone to be empty.
ValidateConfigNoCredential(config) ==
  CASE config.Tailnet = "" -> "provided tailnet cannot be empty"
    [] config.APIKey = "" /\ config.OAuthClientID # "" -> "one of api_key or oauth_client_id cannot be empty"
    [] config.APIUrl = "" -> "provided api_url cannot be empty"
    [] OTHER -> ""

\* The switch without its api_url case.
ValidateConfigNoURL(config) ==
  CASE config.Tailnet = "" -> "provided tailnet cannot be empty"
    [] config.APIKey = "" /\ config.OAuthClientID = "" -> "one of api_key or oauth_client_id cannot be empty"
    [] OTHER -> ""

\* The switch of UpdateConfiguration: the first failing case decides, "" is nil.
ValidateConfig(config) ==
  CASE config.Tailnet = "" -> ErrTailnetEmpty
    [] config.APIKey = "" /\ config.OAuthClientID = "" -> ErrCredentialEmpty
    [] config.APIUrl = "" -> ErrAPIUrlEmpty
    [] OTHER -> ""

\* json.Marshal of a Config: an object keyed by the struct's json tags.
EncodeJSON(config) ==
  [ tailnet             |-> config.Tailnet,
    api_key             |-> config.APIKey,
    api_url             |-> config.APIUrl,
    oauth_client_id     |-> config.OAuthClientID,
    oauth_client_secret |-> config.OAuthClientSecret,
    oauth_scopes        |-> config.OAuthScopes ]

\* logical.StorageEntryJSON(configPath, config).
StorageEntryJSON(k, config) == [Key |-> k, Value |-> EncodeJSON(config)]

\* StorageEntry.DecodeJSON into a Config, by json tag (the entry is not nil).
DecodeJSON(entry) ==
  [ Tailnet           |-> entry.Value.tailnet,
    APIKey            |-> entry.Value.api_key,
    APIUrl            |-> entry.Value.api_url,
    OAuthClientID     |-> entry.Value.oauth_client_id,
    OAuthClientSecret |-> entry.Value.oauth_client_secret,
    OAuthScopes       |-> entry.Value.oauth_scopes ]

MalformedURLs == {"://bad"}

\* url.Parse, called by tailscale.WithBaseURL: a URL without a scheme before "://" fails.
ParseURLFails(u) == u \in MalformedURLs

\* Config.Client: API key authentication when APIKey is set, else the OAuth
\* client-credential flow; the error of NewClient's options is returned as it is.
Client(config) ==
  IF ParseURLFails(config.APIUrl)
    THEN [err |-> ErrParseURL, client |-> Nil]
    ELSE IF config.APIKey # ""
      THEN [err |-> "",
            client |-> Ptr([apiKey |-> config.APIKey, tailnet |-> config.Tailnet,
                            baseURL |-> config.APIUrl, oauth |-> Nil])]
      ELSE [err |-> "",
            client |-> Ptr([apiKey |-> "", tailnet |-> config.Tailnet,
                            baseURL |-> config.APIUrl,
                            oauth |-> Ptr([clientID     |-> config.OAuthClientID,
                                           clientSecret |-> config.OAuthClientSecret,
                                           scopes       |-> config.OAuthScopes])])]

\* The tailscale.KeyCapabilities GenerateKey fills from the request; Reusable is never set.
NewCapabilities(data) ==
  [Devices |-> [Create |-> [ Tags          |-> Get(data, "tags"),
                             Preauthorized |-> Get(data, "preauthorized"),
                             Ephemeral     |-> Get(data, "ephemeral"),
                             Reusable      |-> FALSE ]]]

\* The tailscale.Key client.CreateKey decodes from the upstream's JSON body:
\* a field the body omits keeps its zero value.
DecodeKey(body) ==
  [ ID      |-> body.id,
    Key     |-> body.key,
    Expires |-> IF "expires" \in DOMAIN body THEN body.expires ELSE ZeroTime,
    Capabilities |-> [Devices |-> [Create |->
      [ Tags          |-> body.capabilities.devices.create.tags,
        Reusable      |-> body.capabilities.devices.create.reusable,
        Ephemeral     |-> body.capabilities.devices.create.ephemeral,
        Preauthorized |-> body.capabilities.devices.create.preauthorized ]]] ]

\* The response with the two flags read from each other's field.
KeyResponseSwapped(key) ==
  [ id            |-> key.ID,
    key           |-> key.Key,
    expires       |-> key.Expires,
    tags          |-> key.Capabilities.Devices.Create.Tags,
    reusable      |-> key.Capabilities.Devices.Create.Reusable,
    ephemeral     |-> key.Capabilities.Devices.Create.Preauthorized,
    preauthorized |-> key.Capabilities.Devices.Create.Ephemeral ]

\* The response data GenerateKey builds from the key the client returned.
KeyResponse(key) ==
  [ id            |-> key.ID,
    key           |-> key.Key,
    expires       |-> key.Expires,
    tags          |-> key.Capabilities.Devices.Create.Tags,
    reusable      |-> key.Capabilities.Devices.Create.Reusable,
    ephemeral     |-> key.Capabilities.Devices.Create.Ephemeral,
    preauthorized |-> key.Capabilities.Devices.Create.Preauthorized ]

\* The response with the OAuth client secret redacted.
ConfigResponseRedacted(config) ==
  [ tailnet             |-> config.Tailnet,
    api_key             |-> config.APIKey,
    api_url             |-> config.APIUrl,
    oauth_client_id     |-> config.OAuthClientID,
    oauth_client_secret |-> "",
    oauth_scopes        |-> config.OAuthScopes ]

\* The response data ReadConfiguration builds from the decoded Config.
ConfigResponse(config) ==
  [ tailnet             |-> config.Tailnet,
    api_key             |-> config.APIKey,
    api_url             |-> config.APIUrl,
    oauth_client_id     |-> config.OAuthClientID,
    oauth_client_secret |-> config.OAuthClientSecret,
    oauth_scopes        |-> config.OAuthScopes ]

\* ----------------------------------------------------------------- storage

\* logical.Storage: a map from path to entry; Get of a missing path is (nil, nil).
EmptyStorage == [k \in {} |-> Nil]

StorageGet(s, k) == IF k \in DOMAIN s THEN Ptr(s[k]) ELSE Nil

\* A Put that writes field by field, leaving a stored field the entry has empty.
StoragePutMerged(s, entry) ==
  [k \in DOMAIN s \cup {entry.Key} |->
     IF k # entry.Key THEN s[k]
     ELSE IF k \notin DOMAIN s THEN entry
     ELSE [Key |-> k,
           Value |-> [f \in DOMAIN entry.Value |->
                        IF entry.Value[f] = DefaultOrZero(IF f = "api_url" THEN "" ELSE f)
                          THEN s[k].Value[f]
                        ELSE entry.Value[f]]]]

\* Storage.Put replaces the whole entry under entry.Key.
StoragePut(s, entry) ==
  [k \in DOMAIN s \cup {entry.Key} |-> IF k = entry.Key THEN entry ELSE s[k]]

\* ------------------------------------------------------------------ inputs

\* A request's raw fields: any subset of the schema's fields, each with a value.
Restrict(f, D) == [k \in D |-> f[k]]

ConfigValues ==
  [ tailnet             : {"", "example.com"},
    api_key             : {"1234"},
    api_url             : {"", "http://localhost:1337", "://bad"},
    oauth_client_id     : {"client"},
    oauth_client_secret : {"secret"},
    oauth_scopes        : {<<"devices">>} ]

ConfigRequests == {Restrict(f, D) : f \in ConfigValues, D \in SUBSET ConfigFields}

KeyValues == [tags : {<<"tag:a">>}, preauthorized : {TRUE}, ephemeral : {TRUE}]

KeyRequests == {Restrict(f, D) : f \in KeyValues, D \in SUBSET KeyFields}

\* The JSON bodies the upstream may answer the n-th CreateKey request with: its
\* own id and secret, its own capability echo, an expiry it may omit.
KeyBodies(n) ==
  LET caps == [tags : {<< >>, <<"tag:a">>}, reusable : BOOLEAN,
               ephemeral : BOOLEAN, preauthorized : BOOLEAN]
      full == [id : {<<"id", n>>}, key : {<<"tskey", n>>}, expires : {1},
               capabilities : {[devices |-> [create |-> c]] : c \in caps}]
  IN  full \cup {Restrict(b, {"id", "key", "capabilities"}) : b \in full}

\* What client.CreateKey may come back with: a body, a failure of the upstream
\* (network, rejection, 4xx/5xx), or the cancellation of the request's context.
UpstreamReplies(n) ==
  {[kind |-> "ok", body |-> b] : b \in KeyBodies(n)}
    \cup {[kind |-> "error", err |-> ErrUpstream], [kind |-> "error", err |-> ErrCanceled]}

\* The inputs of the concurrent specification: two complete candidates that differ
\* in every field, one candidate without credentials, one with an empty api_url,
\* and the plain key request
\* with an upstream that answers with the plain key or fails.
ConcConfigRequests ==
  { [tailnet |-> "example.com", api_key |-> "1234"],
    [tailnet |-> "other.net", api_url |-> "http://localhost:1337",
     oauth_client_id |-> "client", oauth_client_secret |-> "secret",
     oauth_scopes |-> <<"devices">>],
    [tailnet |-> "example.com"],
    [tailnet |-> "example.com", api_key |-> "1234", api_url |-> ""] }

ConcKeyRequests == {Restrict(f, {}) : f \in KeyValues}

ConcUpstreamReplies(n) ==
  {r \in UpstreamReplies(n) :
     IF r.kind = "error" THEN r.err = ErrUpstream
     ELSE /\ "expires" \notin DOMAIN r.body
          /\ r.body.capabilities.devices.create.tags = << >>
          /\ ~r.body.capabilities.devices.create.reusable
          /\ ~r.body.capabilities.devices.create.ephemeral
          /\ ~r.body.capabilities.devices.create.preauthorized}

\* ----------------------------------------------------------- initial state

NoLocal == [op |-> "none"]

NoResult == [op |-> "none"]

Init ==
  /\ storage = EmptyStorage
  /\ upstream = [requests |-> 0]
  /\ pc = [g \in Goroutines |-> "idle"]
  /\ local = [g \in Goroutines |-> NoLocal]
  /\ result = [g \in Goroutines |-> NoResult]
  /\ lastWrite = Nil

\* What a handler hands back: (response, nil) or (nil, err).  before is the
\* storage as it was when the handler started.
Returned(op, data, err, resp, before) ==
  [ op |-> op, data |-> data, outcome |-> IF err = "" THEN "ok" ELSE "error",
    err |-> err, resp |-> resp, before |-> before ]

\* What GenerateKey hands back, or the panic that unwinds it.  sent is the
\* number of requests the upstream had been sent when the handler started,
\* reply what client.CreateKey came back with (nil when it was not called).
KeyReturned(data, err, resp, started, reply) ==
  [ op |-> "key", data |-> data, outcome |-> IF err = "" THEN "ok" ELSE "error",
    err |-> err, resp |-> resp, before |-> started.before, sent |-> started.sent,
    reply |-> reply ]

KeyPanicked(data, started) ==
  [ op |-> "key", data |-> data, outcome |-> "panic", err |-> "", resp |-> Nil,
    before |-> started.before, sent |-> started.sent, reply |-> Nil ]

Started == [before |-> storage, sent |-> upstream.requests]

\* ----------------------------------------------------- UpdateConfiguration

\* Builds the Config from the request and validates it; a validation error is
\* returned before the storage is touched.
UpdateConfiguration(g, data) ==
  /\ pc[g] = "idle"
  /\ LET config == NewConfig(data)
         err    == ValidateConfig(config)
     IN  IF err # ""
           THEN /\ result' = [result EXCEPT ![g] = Returned("update", data, err, Nil, storage)]
                /\ UNCHANGED <<pc, local>>
           ELSE /\ pc' = [pc EXCEPT ![g] = "put"]
                /\ local' = [local EXCEPT ![g] =
                     [op |-> "update", data |-> data, config |-> config, before |-> storage]]
                /\ result' = [result EXCEPT ![g] = NoResult]
  /\ UNCHANGED <<storage, upstream, lastWrite>>

\* Encodes the Config and puts the entry; json.Marshal of a Config of strings
\* cannot fail, Storage.Put can (fault) and then leaves the storage as it was.
UpdateConfigurationPut(g, fault) ==
  /\ pc[g] = "put"
  /\ LET entry == StorageEntryJSON(configPath, local[g].config)
     IN  IF fault
           THEN /\ result' = [result EXCEPT ![g] =
                     Returned("update", local[g].data, ErrStorage, Nil, local[g].before)]
                /\ UNCHANGED <<storage, lastWrite>>
           ELSE /\ storage' = StoragePut(storage, entry)
                /\ lastWrite' = Ptr(local[g].data)
                /\ result' = [result EXCEPT ![g] =
                     Returned("update", local[g].data, "", << >>, local[g].before)]
  /\ pc' = [pc EXCEPT ![g] = "idle"]
  /\ local' = [local EXCEPT ![g] = NoLocal]
  /\ UNCHANGED upstream

\* ------------------------------------------------------- ReadConfiguration

ReadConfiguration(g, data, fault) ==
  /\ pc[g] = "idle"
  /\ LET entry == StorageGet(storage, configPath)
     IN  result' = [result EXCEPT ![g] =
           IF fault THEN Returned("read", data, ErrStorage, Nil, storage)
           ELSE IF entry = Nil THEN Returned("read", data, ErrNotConfigured, Nil, storage)
           ELSE Returned("read", data, "", ConfigResponse(DecodeJSON(entry[1])), storage)]
  /\ UNCHANGED <<storage, upstream, pc, local, lastWrite>>

\* ------------------------------------------------------------- GenerateKey

InFlight(step) == {h \in Goroutines : pc[h] = step}

\* An unrecovered panic ends the plugin process and with it every handler in
\* flight; the durable storage and the upstream stay.  A host that recovers the
\* panic ends the panicking handler alone.
AfterPanic(g, recovered, r) ==
  /\ result' = [result EXCEPT ![g] = r]
  /\ IF recovered
       THEN UNCHANGED <<pc, local>>
       ELSE /\ pc' = [h \in Goroutines |-> "idle"]
            /\ local' = [h \in Goroutines |-> NoLocal]

\* Reads the entry, decodes it and builds the client and the capabilities.  The
\* entry is decoded without a nil check: on a missing entry entry.DecodeJSON
\* dereferences the nil *StorageEntry, a runtime panic.
GenerateKey(g, data, fault, recovered) ==
  /\ pc[g] = "idle"
  /\ upstream.requests + Cardinality(InFlight("create")) < MaxKeys
  /\ LET entry == StorageGet(storage, configPath)
     IN  IF fault
           THEN /\ result' = [result EXCEPT ![g] = KeyReturned(data, ErrStorage, Nil, Started, Nil)]
                /\ UNCHANGED <<pc, local>>
         ELSE IF entry = Nil
           THEN AfterPanic(g, recovered, KeyPanicked(data, Started))
         ELSE LET config == DecodeJSON(entry[1])
                  made   == Client(config)
              IN  IF made.err # ""
                    THEN /\ result' = [result EXCEPT ![g] =
                              KeyReturned(data, made.err, Nil, Started, Nil)]
                         /\ UNCHANGED <<pc, local>>
                    ELSE /\ pc' = [pc EXCEPT ![g] = "create"]
                         /\ local' = [local EXCEPT ![g] =
                              [op |-> "key", data |-> data, client |-> made.client[1],
                               capabilities |-> NewCapabilities(data), started |-> Started]]
                         /\ result' = [result EXCEPT ![g] = NoResult]
  /\ UNCHANGED <<storage, upstream, lastWrite>>

\* A CreateKey that sends the request again when the upstream fails it.
CreateKeyRetry(u, reply) ==
  [requests |-> u.requests + (IF reply.kind = "error" THEN 2 ELSE 1)]

\* client.CreateKey sends one request to the upstream.
CreateKey(u, reply) == [requests |-> u.requests + 1]

\* The call of client.CreateKey and what GenerateKey returns from it.
CreateKeyStep(g, reply) ==
  /\ pc[g] = "create"
  /\ upstream' = CreateKey(upstream, reply)
  /\ result' = [result EXCEPT ![g] =
       IF reply.kind = "ok"
         THEN KeyReturned(local[g].data, "", KeyResponse(DecodeKey(reply.body)),
                          local[g].started, Ptr(reply))
         ELSE KeyReturned(local[g].data, reply.err, Nil, local[g].started, Ptr(reply))]
  /\ pc' = [pc EXCEPT ![g] = "idle"]
  /\ local' = [local EXCEPT ![g] = NoLocal]

\* A GenerateKey that keeps the key it issued in the storage.
GenerateKeyCreateStored(g, reply) ==
  /\ CreateKeyStep(g, reply)
  /\ storage' = IF reply.kind = "ok"
                  THEN StoragePut(storage, [Key |-> "key", Value |-> reply.body])
                  ELSE storage
  /\ UNCHANGED lastWrite

GenerateKeyCreate(g, reply) ==
  /\ CreateKeyStep(g, reply)
  /\ UNCHANGED <<storage, lastWrite>>

\* ---------------------------------------------------------- specifications

\* One handler at a time, every request the schema admits.
Next ==
  \E g \in {1} :
    \/ \E data \in ConfigRequests : UpdateConfiguration(g, data)
    \/ \E fault \in BOOLEAN : UpdateConfigurationPut(g, fault)
    \/ \E fault \in BOOLEAN : ReadConfiguration(g, << >>, fault)
    \/ \E data \in KeyRequests, fault \in BOOLEAN, recovered \in BOOLEAN :
         GenerateKey(g, data, fault, recovered)
    \/ \E reply \in UpstreamReplies(upstream.requests + 1) : GenerateKeyCreate(g, reply)

Spec == Init /\ [][Next]_vars

\* Handlers of all goroutines interleaved at their storage and upstream accesses;
\* of the storage's operations only Put may fail.
NextConc ==
  \E g \in Goroutines :
    \/ \E data \in ConcConfigRequests : UpdateConfiguration(g, data)
    \/ \E fault \in BOOLEAN : UpdateConfigurationPut(g, fault)
    \/ ReadConfiguration(g, << >>, FALSE)
    \/ \E data \in ConcKeyRequests, recovered \in BOOLEAN :
         GenerateKey(g, data, FALSE, recovered)
    \/ \E reply \in ConcUpstreamReplies(upstream.requests + 1) : GenerateKeyCreate(g, reply)

SpecConc == Init /\ [][NextConc]_vars

\* ------------------------------------------------------------------ claims

\* The value a configuration write supplies for field k, dflt when it omits it.
Supplied(data, k, dflt) == IF k \in DOMAIN data THEN data[k] ELSE dflt

\* The record a configuration write asks for: its six fields as supplied, the
\* omitted ones empty, api_url the documented default when omitted.
ExpectedRecord(data) ==
  [ tailnet             |-> Supplied(data, "tailnet", ""),
    api_key             |-> Supplied(data, "api_key", ""),
    api_url             |-> Supplied(data, "api_url", "https://api.tailscale.com"),
    oauth_client_id     |-> Supplied(data, "oauth_client_id", ""),
    oauth_client_secret |-> Supplied(data, "oauth_client_secret", ""),
    oauth_scopes        |-> Supplied(data, "oauth_scopes", << >>) ]

\* The stored configuration record (the JSON object under "config"), when there is one.
StoredRecord == storage["config"].Value

Unset == storage = EmptyStorage

\* C1: a GenerateKey call made while the configuration is Unset (and whose
\* storage read did not fail) returns the NotConfigured error to its caller,
\* without a crash and without an upstream request.
C1_UnsetGenerateKeyFailsNotConfigured ==
  \A g \in Goroutines :
    (result[g].op = "key" /\ result[g].before = EmptyStorage /\ result[g].err # ErrStorage)
      => /\ result[g].outcome = "error"
         /\ result[g].err = "configuration has not been set"
         /\ result[g].reply = Nil

\* C2: an Update whose tailnet is empty or missing fails with the tailnet
\* validation error, whatever its other fields, and the stored record is the
\* same after the call as before it (absent if it was absent).
C2_EmptyTailnetRejectedUnchanged ==
  \A g \in Goroutines :
    (result[g].op = "update" /\ Supplied(result[g].data, "tailnet", "") = "")
      => /\ result[g].outcome = "error"
         /\ result[g].err = "provided tailnet cannot be empty"
         /\ storage = result[g].before

C2_Witness ==
  \E g \in Goroutines :
    /\ result[g].op = "update"
    /\ "tailnet" \notin DOMAIN result[g].data
    /\ Supplied(result[g].data, "api_key", "") # ""
    /\ result[g].outcome = "error"
    /\ result[g].before # EmptyStorage

\* C3 as stated: every Update with both api_key and oauth_client_id empty fails
\* with MissingCredential.
C3_Original ==
  \A g \in Goroutines :
    ( /\ result[g].op = "update"
      /\ Supplied(result[g].data, "api_key", "") = ""
      /\ Supplied(result[g].data, "oauth_client_id", "") = "" )
      => /\ result[g].outcome = "error"
         /\ result[g].err = "one of api_key or oauth_client_id cannot be empty"

\* C3 amended: an Update with both api_key and oauth_client_id empty fails, with
\* MissingCredential when its tailnet is non-empty and with the tailnet
\* validation error when it is not; the stored record is left as it was, and a
\* Read while no record was ever stored fails with NotConfigured.
C3_MissingCredentialRejectedUnchanged ==
  /\ \A g \in Goroutines :
       ( /\ result[g].op = "update"
         /\ Supplied(result[g].data, "api_key", "") = ""
         /\ Supplied(result[g].data, "oauth_client_id", "") = "" )
         => /\ result[g].outcome = "error"
            /\ result[g].err = IF Supplied(result[g].data, "tailnet", "") = ""
                                 THEN "provided tailnet cannot be empty"
                                 ELSE "one of api_key or oauth_client_id cannot be empty"
            /\ storage = result[g].before
  /\ \A g \in Goroutines :
       (result[g].op = "read" /\ result[g].err # ErrStorage /\ lastWrite = Nil)
         => result[g].outcome = "error" /\ result[g].err = "configuration has not been set"

C3_Witness ==
  \E g \in Goroutines :
    /\ result[g].op = "update"
    /\ Supplied(result[g].data, "tailnet", "") = "example.com"
    /\ Supplied(result[g].data, "api_key", "") = ""
    /\ Supplied(result[g].data, "oauth_client_id", "") = ""
    /\ result[g].err = "one of api_key or oauth_client_id cannot be empty"
    /\ result[g].before # EmptyStorage

\* C4: once an Update has succeeded, a Read (whose storage read does not fail)
\* succeeds and returns the six fields of the last successful Update's
\* candidate, api_url being https://api.tailscale.com when that Update omitted it.
C4_ReadReturnsLastUpdate ==
  \A g \in Goroutines :
    (result[g].op = "read" /\ lastWrite # Nil /\ result[g].err # ErrStorage)
      => /\ result[g].outcome = "ok"
         /\ result[g].resp = ExpectedRecord(lastWrite[1])

C4_Witness ==
  \E g \in Goroutines :
    /\ result[g].op = "read"
    /\ result[g].outcome = "ok"
    /\ lastWrite # Nil
    /\ "api_url" \notin DOMAIN lastWrite[1]
    /\ result[g].resp.api_url = "https://api.tailscale.com"
    /\ result[g].resp.oauth_client_secret = "secret"
    /\ result[g].resp.oauth_scopes = <<"devices">>

\* C5: the stored record is absent exactly until the first successful Update,
\* and from then on it is, in every field, the candidate of the most recent
\* successful Update: nothing of an earlier record survives.
C5_WholesaleReplace ==
  /\ Unset <=> lastWrite = Nil
  /\ lastWrite # Nil =>
       /\ DOMAIN storage = {"config"}
       /\ StoredRecord = ExpectedRecord(lastWrite[1])

C5_Witness ==
  \E g \in Goroutines :
    /\ result[g].op = "update"
    /\ result[g].outcome = "ok"
    /\ DOMAIN result[g].data = {"tailnet", "api_key"}
    /\ result[g].before # EmptyStorage
    /\ result[g].before["config"].Value.oauth_client_id = "client"
    /\ result[g].before["config"].Value.oauth_client_secret = "secret"
    /\ result[g].before["config"].Value.oauth_scopes = <<"devices">>
    /\ StoredRecord.oauth_client_id = ""
    /\ StoredRecord.oauth_client_secret = ""
    /\ StoredRecord.oauth_scopes = << >>

\* C6: under any interleaving of the handlers the stored record is absent until
\* the first Storage.Put and afterwards equal, in all six fields, to the
\* candidate of the Update whose Put happened last; every Read returns one
\* accepted candidate whole, and every client GenerateKey builds is built from one.
C6_ConcurrentUpdatesNeverCorrupt ==
  /\ IF lastWrite = Nil THEN Unset
       ELSE ~Unset /\ StoredRecord = ExpectedRecord(lastWrite[1])
  /\ \A g \in Goroutines :
       /\ (result[g].op = "read" /\ result[g].outcome = "ok")
            => \E data \in ConcConfigRequests : result[g].resp = ExpectedRecord(data)
       /\ pc[g] = "create"
            => \E data \in ConcConfigRequests :
                 LET r == ExpectedRecord(data)
                 IN  /\ local[g].client.tailnet = r.tailnet
                     /\ local[g].client.baseURL = r.api_url
                     /\ local[g].client.apiKey = r.api_key
                     /\ r.api_key = "" =>
                          local[g].client.oauth =
                            <<[clientID |-> r.oauth_client_id,
                               clientSecret |-> r.oauth_client_secret,
                               scopes |-> r.oauth_scopes]>>

\* Two Updates in flight together, both started on the empty storage: the
\* record is the candidate of the one that put last, not the other's.
C6_Witness ==
  /\ result[1].op = "update" /\ result[1].outcome = "ok"
  /\ result[2].op = "update" /\ result[2].outcome = "ok"
  /\ result[1].before = EmptyStorage /\ result[2].before = EmptyStorage
  /\ result[1].data # result[2].data
  /\ lastWrite = <<result[1].data>>
  /\ StoredRecord.api_key = "1234"
  /\ StoredRecord.oauth_client_id = ""

\* C7: a GenerateKey call never changes the storage, whatever its outcome and
\* while its upstream request is in flight.
C7_GenerateKeyLeavesStorage ==
  \A g \in Goroutines :
    /\ result[g].op = "key" => storage = result[g].before
    /\ pc[g] = "create" => storage = local[g].started.before

C7_Witness ==
  \E g \in Goroutines :
    /\ result[g].op = "key"
    /\ result[g].err = ErrCanceled
    /\ ~Unset

\* C8: on success GenerateKey returns the id, key, expiry and capability flags
\* of the upstream's answer, not those of the request, the expiry being the zero
\* time when the upstream omits it.
C8_ResponseEchoesUpstream ==
  \A g \in Goroutines :
    (result[g].op = "key" /\ result[g].outcome = "ok")
      => LET body == result[g].reply[1].body
             granted == body.capabilities.devices.create
         IN  result[g].resp =
               [ id            |-> body.id,
                 key           |-> body.key,
                 expires       |-> IF "expires" \in DOMAIN body THEN body.expires ELSE 0,
                 tags          |-> granted.tags,
                 reusable      |-> granted.reusable,
                 ephemeral     |-> granted.ephemeral,
                 preauthorized |-> granted.preauthorized ]

C8_Witness ==
  \E g \in Goroutines :
    /\ result[g].op = "key"
    /\ result[g].outcome = "ok"
    /\ "expires" \notin DOMAIN result[g].reply[1].body
    /\ result[g].resp.expires = 0
    /\ result[g].data = [tags |-> <<"tag:a">>, ephemeral |-> TRUE]
    /\ result[g].resp.tags = << >>
    /\ ~result[g].resp.ephemeral
    /\ result[g].resp.preauthorized
    /\ result[g].resp.reusable

\* C9 as stated: every GenerateKey call made in state Set (and whose storage
\* read did not fail) performs exactly one upstream key-creation request.
C9_Original ==
  \A g \in Goroutines :
    (result[g].op = "key" /\ result[g].before # EmptyStorage /\ result[g].err # ErrStorage)
      => upstream.requests = result[g].sent + 1

\* C9 amended: a GenerateKey call made in state Set whose storage read and
\* client construction succeed performs exactly one upstream request, and one
\* whose client construction fails performs none.  A successful call returns
\* the key of its own request; a failed request's error is returned unchanged,
\* with no key and no second request.
C9_OneUpstreamRequestPerCall ==
  \A g \in Goroutines :
    result[g].op = "key" =>
      IF result[g].outcome = "panic" \/ result[g].err \in {ErrStorage, ErrParseURL}
        THEN upstream.requests = result[g].sent /\ result[g].reply = Nil
                /\ result[g].resp = Nil
        ELSE /\ result[g].before # EmptyStorage
             /\ upstream.requests = result[g].sent + 1
             /\ result[g].reply # Nil
             /\ IF result[g].reply[1].kind = "ok"
                  THEN /\ result[g].outcome = "ok"
                       /\ result[g].resp.id = <<"id", result[g].sent + 1>>
                       /\ result[g].resp.key = <<"tskey", result[g].sent + 1>>
                  ELSE /\ result[g].outcome = "error"
                       /\ result[g].err = result[g].reply[1].err
                       /\ result[g].resp = Nil

C9_Witness ==
  \E g \in Goroutines :
    /\ result[g].op = "key"
    /\ result[g].outcome = "ok"
    /\ result[g].sent = 1
    /\ upstream.requests = 2
    /\ result[g].resp.id = <<"id", 2>>

ValidRecord(r) ==
  /\ r.tailnet # ""
  /\ r.api_url # ""
  /\ r.api_key # "" \/ r.oauth_client_id # ""

====
